---- MODULE Spec2Model ----
(***************************************************************************)
(* The background task scheduler of ithaca (src/ithaca/scheduler.py) and   *)
(* its control channel: the run loop of SimpleScheduler, the Command       *)
(* Server thread, the signal handlers and the files under /tmp.            *)
(*                                                                         *)
(* Spec       one scheduler process: main thread (start_*, _run_loop,      *)
(*            _cleanup, the atexit hook), the server thread, signals and   *)
(*            clients as the environment, a discrete clock of seconds.     *)
(* SpecStart  two instances of the same name started on one machine: each   *)
(*            start_daemon / start_foreground with the processes the forks *)
(*            leave behind, their atexit hooks and the shared files; the   *)
(*            run loop is one state here, Spec has its steps.              *)
(* SpecLive   Spec with a fair main thread, for what the loop reaches.      *)
(* SpecCmd    _handle_command applied to any state and command string.     *)
(* SpecStatus _update_status step by step, with two writers and a reader.  *)
(* SpecCli    one run of the CLI controller (src/bk/scheduler_cli.py).     *)
(* SpecServe  SpecLive with accept and recv of the server thread as two    *)
(*            steps, recv blocking until the client writes.                *)
(* SpecSig    a foreground scheduler and the signals delivered to its      *)
(*            process from __init__ on.                                    *)
(* SpecCycle  the run loop of src/ithaca/scheduler/simple_scheduler_.py.   *)
(***************************************************************************)
EXTENDS Integers, Sequences, FiniteSets, TLC

\* ------------------------------------------------------------------ bounds
MaxInterval == 3      \* largest interval_seconds the constructor is given
MaxSteps == 1         \* successful steps the Step Executor may return
MaxTime == 3          \* horizon of the clock, in seconds
MaxHours == 1         \* largest interval_hours of simple_scheduler_.py
MaxCycles == 2        \* cycles simple_scheduler_.py may count
MaxFailures == 3      \* where the record of failures in a row saturates

\* ---------------------------------------------------------------- constants
Null == "None"            \* Python's None
NoTime == -1              \* None in a timestamp field
NoFile == "absent"        \* a path that does not exist
SelfPid == "self"         \* os.getpid() of the scheduler process
StalePid == "stale"       \* the PID of a process that no longer exists
SelfSock == "self_sock"   \* the socket file bound by this process's server thread
StaleSock == "stale_sock" \* a socket file left by an earlier process

VARIABLES
    \* SchedulerState (SimpleScheduler.__init__)
    running, paused, step_count, interval_seconds,
    start_time, last_run_time, next_run_time, daemon_mode,
    command_server,   \* self.command_server: "None", "open" or "closed"
    \* files named after the instance
    pid_file, sock_file, status_file,
    \* the main thread
    pc,               \* position of the main thread
    in_atexit,        \* _cleanup is running as the atexit hook
    remaining,        \* local of _wait_for_next_step
    success,          \* local of _execute_step
    call,             \* the Step Executor variant in flight or last called
    has_init,         \* hasattr(workflow, "init_run")
    inflight,         \* Step Executor invocations started and not returned
    \* the server thread
    tpc,              \* position of server_thread
    response,         \* what _handle_command returned
    \* environment
    now,              \* datetime.now(), in seconds
    ivl_cmd_time,     \* when an interval command was accepted during the current wait
    \* SpecStart: the instances sharing one name
    inst_pc,          \* position of each instance's start_* call
    inst_mode,        \* "daemon" or "foreground" once started
    launcher_pc,      \* the process that called start_daemon, after the first fork
    child_pc,         \* the intermediate child, after the second fork
    inst_thread,      \* each instance's server_thread
    \* SpecStatus: _update_status step by step
    upd_pc,           \* position of each caller of _update_status
    upd_snap,         \* the get_status() each caller has handed to json.dump
    truncated,        \* the status file has been opened with 'w', nothing written yet
    observed,         \* what the last read of the status file returned
    \* SpecCli: one run of scheduler_cli.py
    exit_code,        \* <<>> until main() has returned, then <<its return value>>
    cli_out,          \* the line main() printed
    \* SpecSig: signals delivered to a scheduler started in the foreground
    stop_signalled,   \* SIGINT or SIGTERM has been delivered since __init__
    \* SpecCycle: the run loop of scheduler/simple_scheduler_.py
    cycle_count,      \* self.cycle_count
    cyc_pc,           \* position of its _run_loop
    cyc_remaining,    \* `seconds` of _sleep_with_check
    interval_hours,   \* self.interval_hours
    failures_in_row   \* task failures since the last success (the code keeps no such count)

sched == <<running, paused, step_count, interval_seconds,
           start_time, last_run_time, next_run_time, daemon_mode>>
files == <<pid_file, sock_file, status_file>>
mainv == <<pc, in_atexit, remaining, success, call, has_init, inflight>>
threadv == <<tpc, response>>
corev == <<sched, command_server, mainv, threadv, now, ivl_cmd_time>>
startv == <<inst_pc, inst_mode, launcher_pc, child_pc, inst_thread>>
statusv == <<upd_pc, upd_snap, truncated, observed>>
cliv == <<exit_code, cli_out>>
sigv == <<stop_signalled>>
cyclev == <<cycle_count, cyc_pc, cyc_remaining, interval_hours,
            failures_in_row>>
vars == <<corev, files, startv, statusv, cliv, sigv, cyclev>>

\* --------------------------------------------------------------- commands
\* A command after .strip(), as its whitespace-separated tokens. Commands are
\* the ones the clients of Spec send.
Commands ==
    { <<"status">>, <<"stop">>, <<"pause">>, <<"resume">>,
      <<"interval", "1">>, <<"interval", "0">>, <<"interval", "abc">> }

\* int(token): the integer literals of the tokens above; anything else raises
\* ValueError.
IntLiterals ==
    [t \in {"0", "1", "+1", "-1"} |->
        CASE t = "0" -> 0 [] t = "1" -> 1 [] t = "+1" -> 1 [] t = "-1" -> 0 - 1]

\* str(n) of the integers above, as the f-string of the response prints them.
StrOfInt(n) ==
    CASE n = 0 -> "0" [] n = 1 -> "1" [] n = 0 - 1 -> "-1"

ParsesAsInt(t) == t \in DOMAIN IntLiterals

\* command.startswith("interval "): the stripped command has the word
\* "interval" and something after the space.
StartsWithInterval(cmd) == Len(cmd) >= 2 /\ cmd[1] = "interval"

\* ------------------------------------------------------------- get_status
\* The snapshot _update_status writes, in the fields running, paused and
\* step_count; status_file is <<>> while the file does not exist and
\* <<snapshot>> afterwards.
get_status(r, p, sc) ==
    <<[running |-> r, paused |-> p, step_count |-> sc]>>

\* --------------------------------------------------- stop, pause, resume
\* Each sets running, paused, interval_seconds and status_file.

\* stop() without its `if self.running` guard, resetting both flags.
stop_resets_flags ==
    /\ running' = FALSE
    /\ paused' = FALSE
    /\ status_file' = get_status(FALSE, FALSE, step_count)
    /\ UNCHANGED interval_seconds

stop ==
    IF running
    THEN /\ running' = FALSE
         /\ status_file' = get_status(FALSE, paused, step_count)
         /\ UNCHANGED <<paused, interval_seconds>>
    ELSE UNCHANGED <<running, paused, interval_seconds, status_file>>

pause ==
    IF running /\ ~paused
    THEN /\ paused' = TRUE
         /\ status_file' = get_status(running, TRUE, step_count)
         /\ UNCHANGED <<running, interval_seconds>>
    ELSE UNCHANGED <<running, paused, interval_seconds, status_file>>

resume ==
    IF running /\ paused
    THEN /\ paused' = FALSE
         /\ status_file' = get_status(running, FALSE, step_count)
         /\ UNCHANGED <<running, interval_seconds>>
    ELSE UNCHANGED <<running, paused, interval_seconds, status_file>>

IntervalAccepted(cmd) == StartsWithInterval(cmd) /\ ParsesAsInt(cmd[2])

\* The interval branch of _handle_command.
set_interval(cmd) ==
    IF ParsesAsInt(cmd[2])
    THEN /\ interval_seconds' = IntLiterals[cmd[2]]
         /\ response' = <<"Interval changed to", StrOfInt(IntLiterals[cmd[2]]),
                           "seconds">>
    ELSE /\ interval_seconds' = interval_seconds
         /\ response' = <<"Invalid interval format. Use: interval <seconds>">>

handle_command(cmd) ==
    CASE cmd = <<"status">> ->
            /\ response' = <<"json.dumps(get_status())">>
            /\ UNCHANGED <<running, paused, interval_seconds, status_file>>
      [] cmd = <<"stop">> -> stop /\ response' = <<"Scheduler stopped">>
      [] cmd = <<"pause">> -> pause /\ response' = <<"Scheduler paused">>
      [] cmd = <<"resume">> -> resume /\ response' = <<"Scheduler resumed">>
      [] cmd \notin {<<"status">>, <<"stop">>, <<"pause">>, <<"resume">>}
         /\ StartsWithInterval(cmd) ->
            /\ set_interval(cmd)
            /\ UNCHANGED <<running, paused, status_file>>
      [] OTHER ->
            /\ response' = <<"Unknown command">> \o cmd
            /\ UNCHANGED <<running, paused, interval_seconds, status_file>>

\* ------------------------------------------------------------ PID file
\* _is_running: the file exists, holds an integer and os.kill(pid, 0) finds
\* the process; live is the set of PIDs of existing processes.
is_running(pf, live) == pf # NoFile /\ pf \in live

\* The except branch of _is_running: the PID file is unlinked when it is
\* invalid or names no process.
pid_file_after_is_running(pf, live) ==
    IF pf # NoFile /\ pf \notin live THEN NoFile ELSE pf

\* ---------------------------------------------------------------- Init
Instances == {"a", "b"}

\* SimpleScheduler.__init__(workflow, interval_seconds, name)
InitScheduler(iv, hi) ==
    /\ running = FALSE /\ paused = FALSE /\ step_count = 0
    /\ interval_seconds = iv
    /\ start_time = NoTime /\ last_run_time = NoTime /\ next_run_time = NoTime
    /\ daemon_mode = FALSE
    /\ command_server = Null
    /\ pc = "new" /\ in_atexit = FALSE
    /\ remaining = 0 /\ success = Null /\ call = Null
    /\ has_init = hi
    /\ inflight = 0
    /\ tpc = "none" /\ response = <<>>
    /\ now = 0
    /\ ivl_cmd_time = NoTime

\* No instance of SpecStart has been constructed.
InitInstances ==
    /\ inst_pc = [i \in Instances |-> "new"]
    /\ inst_mode = [i \in Instances |-> Null]
    /\ launcher_pc = [i \in Instances |-> "none"]
    /\ child_pc = [i \in Instances |-> "none"]
    /\ inst_thread = [i \in Instances |-> "none"]

\* The threads that call _update_status: the run loop and server_thread.
Writers == {"loop", "server"}

\* No _update_status call has begun, the status file has not been read, the
\* CLI has not been run, no signal has been delivered, the other scheduler
\* has not been started.
InitUpdates ==
    /\ upd_pc = [w \in Writers |-> "idle"]
    /\ upd_snap = [w \in Writers |-> <<>>]
    /\ truncated = FALSE
    /\ observed = "none"
    /\ exit_code = <<>>
    /\ cli_out = <<>>
    /\ stop_signalled = FALSE
    /\ cycle_count = 0 /\ cyc_pc = "new" /\ cyc_remaining = 0
    /\ interval_hours = 1
    /\ failures_in_row = 0

Init ==
    /\ \E iv \in 1..MaxInterval, hi \in BOOLEAN : InitScheduler(iv, hi)
    /\ pid_file = NoFile /\ sock_file = NoFile /\ status_file = <<>>
    /\ InitInstances
    /\ InitUpdates

\* ------------------------------------------------------------ start_*
\* start_foreground: no PID file, no command server.
start_foreground ==
    /\ pc = "new"
    /\ daemon_mode' = FALSE
    /\ pc' = "run_loop"
    /\ UNCHANGED <<startv, statusv, cliv, sigv, cyclev>>
    /\ UNCHANGED <<running, paused, step_count, interval_seconds, start_time,
                   last_run_time, next_run_time, command_server, files,
                   in_atexit, remaining, success, call, has_init, inflight,
                   threadv, now, ivl_cmd_time>>

\* start_daemon, followed into the process that runs the loop: the
\* _is_running check, the two forks, _write_pid_file, _start_command_server
\* (unlink of an existing socket path, start of server_thread).
start_daemon(forks) ==
    /\ pc = "new"
    /\ IF is_running(pid_file, {SelfPid})
       THEN /\ pc' = "exit"
            /\ UNCHANGED <<daemon_mode, files, tpc>>
       ELSE IF forks # "ok"
       THEN /\ pc' = "exit"
            /\ pid_file' = pid_file_after_is_running(pid_file, {SelfPid})
            /\ UNCHANGED <<daemon_mode, sock_file, status_file, tpc>>
       ELSE /\ pid_file' = SelfPid
            /\ daemon_mode' = TRUE
            /\ sock_file' = NoFile
            /\ tpc' = "created"
            /\ pc' = "run_loop"
            /\ UNCHANGED status_file
    /\ UNCHANGED <<startv, statusv, cliv, sigv, cyclev>>
    /\ UNCHANGED <<running, paused, step_count, interval_seconds, start_time,
                   last_run_time, next_run_time, command_server,
                   in_atexit, remaining, success, call, has_init, inflight,
                   response, now, ivl_cmd_time>>

\* ------------------------------------------------------------ _run_loop
run_loop_enter ==
    /\ pc = "run_loop"
    /\ running' = TRUE
    /\ start_time' = now
    /\ status_file' = get_status(TRUE, paused, step_count)
    /\ pc' = "while"
    /\ UNCHANGED <<startv, statusv, cliv, sigv, cyclev>>
    /\ UNCHANGED <<paused, step_count, interval_seconds, last_run_time,
                   next_run_time, daemon_mode, command_server, pid_file,
                   sock_file, in_atexit, remaining, success, call, has_init,
                   inflight, threadv, now, ivl_cmd_time>>

\* while self.running:
while_running ==
    /\ pc = "while"
    /\ pc' = IF running THEN "if_paused" ELSE "finally"
    /\ UNCHANGED <<startv, statusv, cliv, sigv, cyclev>>
    /\ UNCHANGED <<sched, command_server, files, in_atexit, remaining, success,
                   call, has_init, inflight, threadv, now, ivl_cmd_time>>

\* if not self.paused:
if_not_paused ==
    /\ pc = "if_paused"
    /\ pc' = IF ~paused THEN "execute_step" ELSE "paused_sleep"
    /\ UNCHANGED <<startv, statusv, cliv, sigv, cyclev>>
    /\ UNCHANGED <<sched, command_server, files, in_atexit, remaining, success,
                   call, has_init, inflight, threadv, now, ivl_cmd_time>>

\* time.sleep(1) of the paused branch
paused_sleep ==
    /\ pc = "paused_sleep"
    /\ now < MaxTime
    /\ now' = now + 1
    /\ pc' = "while"
    /\ UNCHANGED <<startv, statusv, cliv, sigv, cyclev>>
    /\ UNCHANGED <<sched, command_server, files, in_atexit, remaining, success,
                   call, has_init, inflight, threadv, ivl_cmd_time>>

\* _execute_step that hands the Step Executor to a worker and does not wait
\* for it to return.
execute_step_call_detached ==
    /\ pc = "execute_step"
    /\ call' = IF step_count = 0 /\ has_init THEN "init_run" ELSE "run"
    /\ inflight' = inflight + 1
    /\ success' = Null
    /\ pc' = "set_next"
    /\ UNCHANGED <<startv, statusv, cliv, sigv, cyclev>>
    /\ UNCHANGED <<sched, command_server, files, in_atexit, remaining,
                   has_init, threadv, now, ivl_cmd_time>>

\* _execute_step up to the call of the Step Executor.
execute_step_call ==
    /\ pc = "execute_step"
    /\ call' = IF step_count = 0 /\ has_init THEN "init_run" ELSE "run"
    /\ inflight' = inflight + 1
    /\ success' = Null
    /\ pc' = "in_step"
    /\ UNCHANGED <<startv, statusv, cliv, sigv, cyclev>>
    /\ UNCHANGED <<sched, command_server, files, in_atexit, remaining,
                   has_init, threadv, now, ivl_cmd_time>>

\* _execute_step that stamps last_run_time whatever the step returned.
execute_step_return_stamps_failure(outcome, d) ==
    /\ pc = "in_step"
    /\ now + d <= MaxTime
    /\ outcome = "success" => step_count < MaxSteps
    /\ now' = now + d
    /\ inflight' = inflight - 1
    /\ IF outcome = "success"
       THEN /\ success' = "True"
            /\ step_count' = step_count + 1
            /\ last_run_time' = now + d
       ELSE /\ success' = IF outcome = "failure" THEN "False" ELSE Null
            /\ last_run_time' = IF outcome = "failure" THEN now + d
                                ELSE last_run_time
            /\ UNCHANGED step_count
    /\ pc' = IF outcome = "escape" THEN "finally" ELSE "set_next"
    /\ UNCHANGED <<startv, statusv, cliv, sigv, cyclev>>
    /\ UNCHANGED <<running, paused, interval_seconds, start_time,
                   next_run_time, daemon_mode, command_server, files,
                   in_atexit, remaining, call, has_init, threadv,
                   ivl_cmd_time>>

\* _execute_step that counts a step whose Step Executor returned failure.
execute_step_return_counts_failure(outcome, d) ==
    /\ pc = "in_step"
    /\ now + d <= MaxTime
    /\ outcome \in {"success", "failure"} => step_count < MaxSteps
    /\ now' = now + d
    /\ inflight' = inflight - 1
    /\ IF outcome \in {"success", "failure"}
       THEN /\ success' = IF outcome = "success" THEN "True" ELSE "False"
            /\ step_count' = step_count + 1
            /\ last_run_time' = now + d
       ELSE /\ success' = Null
            /\ UNCHANGED <<step_count, last_run_time>>
    /\ pc' = IF outcome = "escape" THEN "finally" ELSE "set_next"
    /\ UNCHANGED <<startv, statusv, cliv, sigv, cyclev>>
    /\ UNCHANGED <<running, paused, interval_seconds, start_time,
                   next_run_time, daemon_mode, command_server, files,
                   in_atexit, remaining, call, has_init, threadv,
                   ivl_cmd_time>>

\* The Step Executor returns after d seconds: a truthy value, a falsy one,
\* an Exception (caught in _execute_step) or a BaseException that leaves
\* _execute_step and the loop body.
execute_step_return(outcome, d) ==
    /\ pc = "in_step"
    /\ now + d <= MaxTime
    /\ outcome = "success" => step_count < MaxSteps
    /\ now' = now + d
    /\ inflight' = inflight - 1
    /\ IF outcome = "success"
       THEN /\ success' = "True"
            /\ step_count' = step_count + 1
            /\ last_run_time' = now + d
       ELSE /\ success' = IF outcome = "failure" THEN "False" ELSE Null
            /\ UNCHANGED <<step_count, last_run_time>>
    /\ pc' = IF outcome = "escape" THEN "finally" ELSE "set_next"
    /\ UNCHANGED <<startv, statusv, cliv, sigv, cyclev>>
    /\ UNCHANGED <<running, paused, interval_seconds, start_time,
                   next_run_time, daemon_mode, command_server, files,
                   in_atexit, remaining, call, has_init, threadv,
                   ivl_cmd_time>>

\* _execute_step has returned (its locals are gone);
\* self.next_run_time = now + interval; self._update_status()
set_next_run_time ==
    /\ pc = "set_next"
    /\ next_run_time' = now + interval_seconds
    /\ status_file' = get_status(running, paused, step_count)
    /\ success' = Null /\ call' = Null
    /\ pc' = "wait_enter"
    /\ UNCHANGED <<startv, statusv, cliv, sigv, cyclev>>
    /\ UNCHANGED <<running, paused, step_count, interval_seconds, start_time,
                   last_run_time, daemon_mode, command_server, pid_file,
                   sock_file, in_atexit, remaining, has_init,
                   inflight, threadv, now, ivl_cmd_time>>

\* _wait_for_next_step that waits a single tick while no step has succeeded.
wait_enter_short_after_failure ==
    /\ pc = "wait_enter"
    /\ remaining' = IF step_count = 0 THEN 1 ELSE interval_seconds
    /\ pc' = "wait_test"
    /\ UNCHANGED <<startv, statusv, cliv, sigv, cyclev>>
    /\ UNCHANGED <<sched, command_server, files, in_atexit, success, call,
                   has_init, inflight, threadv, now, ivl_cmd_time>>

\* _wait_for_next_step: remaining = self.interval_seconds
wait_enter ==
    /\ pc = "wait_enter"
    /\ remaining' = interval_seconds
    /\ pc' = "wait_test"
    /\ UNCHANGED <<startv, statusv, cliv, sigv, cyclev>>
    /\ UNCHANGED <<sched, command_server, files, in_atexit, success, call,
                   has_init, inflight, threadv, now, ivl_cmd_time>>

\* _wait_for_next_step whose loop does not test self.running.
wait_test_ignores_running ==
    /\ pc = "wait_test"
    /\ IF remaining > 0 /\ ~paused
       THEN pc' = "wait_sleep" /\ UNCHANGED ivl_cmd_time
       ELSE pc' = "while" /\ ivl_cmd_time' = NoTime
    /\ UNCHANGED <<startv, statusv, cliv, sigv, cyclev>>
    /\ UNCHANGED <<sched, command_server, files, in_atexit, remaining, success,
                   call, has_init, inflight, threadv, now>>

\* while remaining > 0 and self.running and not self.paused:
wait_test ==
    /\ pc = "wait_test"
    /\ IF remaining > 0 /\ running /\ ~paused
       THEN pc' = "wait_sleep" /\ UNCHANGED ivl_cmd_time
       ELSE pc' = "while" /\ ivl_cmd_time' = NoTime
    /\ UNCHANGED <<startv, statusv, cliv, sigv, cyclev>>
    /\ UNCHANGED <<sched, command_server, files, in_atexit, remaining, success,
                   call, has_init, inflight, threadv, now>>

\* _wait_for_next_step that takes two seconds off remaining for a second
\* slept.
wait_sleep_counts_double ==
    /\ pc = "wait_sleep"
    /\ now < MaxTime
    /\ now' = now + 1
    /\ remaining' = IF remaining >= 2 THEN remaining - 2 ELSE 0
    /\ pc' = "wait_test"
    /\ UNCHANGED <<startv, statusv, cliv, sigv, cyclev>>
    /\ UNCHANGED <<sched, command_server, files, in_atexit, success, call,
                   has_init, inflight, threadv, ivl_cmd_time>>

\* sleep_time = min(1, remaining); time.sleep(sleep_time); remaining -= sleep_time
wait_sleep ==
    /\ pc = "wait_sleep"
    /\ now < MaxTime
    /\ now' = now + 1
    /\ remaining' = remaining - 1
    /\ pc' = "wait_test"
    /\ UNCHANGED <<startv, statusv, cliv, sigv, cyclev>>
    /\ UNCHANGED <<sched, command_server, files, in_atexit, success, call,
                   has_init, inflight, threadv, ivl_cmd_time>>

\* finally: self.running = False; self._update_status(); then _cleanup
run_loop_finally ==
    /\ pc = "finally"
    /\ running' = FALSE
    /\ status_file' = get_status(FALSE, paused, step_count)
    /\ pc' = "cleanup_server"
    /\ UNCHANGED <<startv, statusv, cliv, sigv, cyclev>>
    /\ UNCHANGED <<paused, step_count, interval_seconds, start_time,
                   last_run_time, next_run_time, daemon_mode, command_server,
                   pid_file, sock_file, in_atexit, remaining, success, call,
                   has_init, inflight, threadv, now, ivl_cmd_time>>

\* -------------------------------------------------------------- _cleanup
\* if self.command_server: self.command_server.close()
cleanup_server ==
    /\ pc = "cleanup_server"
    /\ command_server' = IF command_server # Null THEN "closed" ELSE command_server
    /\ pc' = "cleanup_sock"
    /\ UNCHANGED <<startv, statusv, cliv, sigv, cyclev>>
    /\ UNCHANGED <<sched, files, in_atexit, remaining, success, call, has_init,
                   inflight, threadv, now, ivl_cmd_time>>

\* if os.path.exists(self.command_socket_path): os.unlink(...)
cleanup_sock ==
    /\ pc = "cleanup_sock"
    /\ sock_file' = NoFile
    /\ pc' = "cleanup_pid"
    /\ UNCHANGED <<startv, statusv, cliv, sigv, cyclev>>
    /\ UNCHANGED <<sched, command_server, pid_file, status_file, in_atexit,
                   remaining, success, call, has_init, inflight, threadv, now,
                   ivl_cmd_time>>

\* if self.pid_file.exists(): self.pid_file.unlink(); then _cleanup returns,
\* to _run_loop's caller or, as the atexit hook, to the end of the process.
cleanup_pid ==
    /\ pc = "cleanup_pid"
    /\ pid_file' = NoFile
    /\ pc' = IF in_atexit THEN "exited" ELSE "returned"
    /\ UNCHANGED <<startv, statusv, cliv, sigv, cyclev>>
    /\ UNCHANGED <<sched, command_server, sock_file, status_file, in_atexit,
                   remaining, success, call, has_init, inflight, threadv, now,
                   ivl_cmd_time>>

\* The process ends (start_* returned, or sys.exit): atexit runs _cleanup.
process_exit ==
    /\ pc \in {"returned", "exit"}
    /\ in_atexit' = TRUE
    /\ pc' = "cleanup_server"
    /\ UNCHANGED <<startv, statusv, cliv, sigv, cyclev>>
    /\ UNCHANGED <<sched, command_server, files, remaining, success, call,
                   has_init, inflight, threadv, now, ivl_cmd_time>>

\* --------------------------------------------------------- server_thread
ProcessAlive == pc # "exited"

\* socket(); server.bind(path): creates the socket file, or raises (the path
\* exists, or the OS refuses), which ends the thread.
server_bind(os_ok) ==
    /\ ProcessAlive
    /\ tpc = "created"
    /\ IF sock_file = NoFile /\ os_ok
       THEN sock_file' = SelfSock /\ tpc' = "bound"
       ELSE tpc' = "failed" /\ UNCHANGED sock_file
    /\ UNCHANGED <<startv, statusv, cliv, sigv, cyclev>>
    /\ UNCHANGED <<sched, command_server, pid_file, status_file, mainv,
                   response, now, ivl_cmd_time>>

\* server.listen(1); self.command_server = server
server_listen ==
    /\ ProcessAlive
    /\ tpc = "bound"
    /\ command_server' = "open"
    /\ tpc' = "serve_test"
    /\ UNCHANGED <<startv, statusv, cliv, sigv, cyclev>>
    /\ UNCHANGED <<sched, files, mainv, response, now, ivl_cmd_time>>

\* while self.running:
server_while_running ==
    /\ ProcessAlive
    /\ tpc = "serve_test"
    /\ tpc' = IF running THEN "accept" ELSE "thread_done"
    /\ UNCHANGED <<startv, statusv, cliv, sigv, cyclev>>
    /\ UNCHANGED <<sched, command_server, files, mainv, response, now,
                   ivl_cmd_time>>

\* server.accept() times out after a second, or raises because _cleanup has
\* closed the socket: back to the loop test.
server_accept_none ==
    /\ ProcessAlive
    /\ tpc = "accept"
    /\ tpc' = "serve_test"
    /\ UNCHANGED <<startv, statusv, cliv, sigv, cyclev>>
    /\ UNCHANGED <<sched, command_server, files, mainv, response, now,
                   ivl_cmd_time>>

InWait == pc \in {"wait_test", "wait_sleep"}

\* server.accept() returns a connection, conn.recv(1024) the client's command
\* and _handle_command(data) the response.
server_accept_handle(cmd) ==
    /\ ProcessAlive
    /\ tpc = "accept"
    /\ command_server = "open"
    /\ handle_command(cmd)
    /\ ivl_cmd_time' = IF InWait /\ IntervalAccepted(cmd)
                       THEN now ELSE ivl_cmd_time
    /\ tpc' = "send"
    /\ UNCHANGED <<startv, statusv, cliv, sigv, cyclev>>
    /\ UNCHANGED <<step_count, start_time, last_run_time, next_run_time,
                   daemon_mode, command_server, pid_file, sock_file, mainv,
                   now>>

\* conn.send(response); conn.close()
server_send ==
    /\ ProcessAlive
    /\ tpc = "send"
    /\ response' = <<>>
    /\ tpc' = "serve_test"
    /\ UNCHANGED <<startv, statusv, cliv, sigv, cyclev>>
    /\ UNCHANGED <<sched, command_server, files, mainv, now, ivl_cmd_time>>

\* ----------------------------------------------------------------- signals
Signals == {"SIGINT", "SIGTERM", "SIGUSR1", "SIGUSR2"}

\* _signal_handler, _pause_handler, _resume_handler: run in the main thread
\* between two of its instructions.
signal_handler(sig) ==
    /\ ProcessAlive
    /\ CASE sig \in {"SIGINT", "SIGTERM"} -> stop
         [] sig = "SIGUSR1" -> pause
         [] sig = "SIGUSR2" -> resume
    /\ UNCHANGED <<startv, statusv, cliv, sigv, cyclev>>
    /\ UNCHANGED <<step_count, start_time, last_run_time, next_run_time,
                   daemon_mode, command_server, pid_file, sock_file, mainv,
                   threadv, now, ivl_cmd_time>>

\* -------------------------------------------------------------------- Next
Outcomes == {"success", "failure", "raise", "escape"}
StepSeconds == {0, 1}
ForkResults == {"ok", "fork1_failed", "fork2_failed"}

Next ==
    \/ start_foreground
    \/ \E forks \in ForkResults : start_daemon(forks)
    \/ run_loop_enter
    \/ while_running
    \/ if_not_paused
    \/ paused_sleep
    \/ execute_step_call
    \/ \E o \in Outcomes, d \in StepSeconds : execute_step_return(o, d)
    \/ set_next_run_time
    \/ wait_enter
    \/ wait_test
    \/ wait_sleep
    \/ run_loop_finally
    \/ cleanup_server
    \/ cleanup_sock
    \/ cleanup_pid
    \/ process_exit
    \/ \E ok \in BOOLEAN : server_bind(ok)
    \/ server_listen
    \/ server_while_running
    \/ server_accept_none
    \/ \E cmd \in Commands : server_accept_handle(cmd)
    \/ server_send
    \/ \E sig \in Signals : signal_handler(sig)

Spec == Init /\ [][Next]_vars

\* The main thread of a live process keeps executing, and the Step Executor
\* returns: every step of the main thread from start_* to the return of
\* _cleanup.
MainThread ==
    \/ run_loop_enter
    \/ while_running
    \/ if_not_paused
    \/ paused_sleep
    \/ execute_step_call
    \/ \E o \in Outcomes, d \in StepSeconds : execute_step_return(o, d)
    \/ set_next_run_time
    \/ wait_enter
    \/ wait_test
    \/ wait_sleep
    \/ run_loop_finally
    \/ cleanup_server
    \/ cleanup_sock
    \/ cleanup_pid

\* The commands that act on running and paused.
StateCommands == {<<"status">>, <<"stop">>, <<"pause">>, <<"resume">>}

\* Next with the clients sending StateCommands.
NextLive ==
    \/ start_foreground
    \/ \E forks \in ForkResults : start_daemon(forks)
    \/ MainThread
    \/ process_exit
    \/ \E ok \in BOOLEAN : server_bind(ok)
    \/ server_listen
    \/ server_while_running
    \/ server_accept_none
    \/ \E cmd \in StateCommands : server_accept_handle(cmd)
    \/ server_send
    \/ \E sig \in Signals : signal_handler(sig)

\* server.accept() returns the connection of a client that has sent nothing
\* yet; the thread goes on to conn.recv(1024) on the accepted socket, which is
\* in blocking mode (the timeout is set on the listening socket only).
server_accept_silent ==
    /\ ProcessAlive
    /\ tpc = "accept"
    /\ command_server = "open"
    /\ tpc' = "recv"
    /\ UNCHANGED <<startv, statusv, cliv, sigv, cyclev>>
    /\ UNCHANGED <<sched, command_server, files, mainv, response, now,
                   ivl_cmd_time>>

\* conn.recv(1024) returns: the client has sent a command, or has closed the
\* connection (the empty string); _handle_command(data) gives the response.
server_recv(cmd) ==
    /\ ProcessAlive
    /\ tpc = "recv"
    /\ handle_command(cmd)
    /\ tpc' = "send"
    /\ UNCHANGED <<startv, statusv, cliv, sigv, cyclev>>
    /\ UNCHANGED <<step_count, start_time, last_run_time, next_run_time,
                   daemon_mode, command_server, pid_file, sock_file, mainv,
                   now, ivl_cmd_time>>

\* The steps server_thread takes by itself: its next instruction, or the
\* timeout of a call.
ThreadOwnStep ==
    \/ server_while_running
    \/ server_accept_none
    \/ server_send

\* NextLive with clients that connect and send late, or nothing.
NextServe ==
    \/ NextLive
    \/ server_accept_silent
    \/ \E cmd \in StateCommands \cup {<<>>} : server_recv(cmd)

\* The scheduler of test_scheduler.py: a workflow with run() and no
\* init_run().
InitLive ==
    /\ \E iv \in 1..MaxInterval : InitScheduler(iv, FALSE)
    /\ pid_file = NoFile /\ sock_file = NoFile /\ status_file = <<>>
    /\ InitInstances
    /\ InitUpdates

SpecLive == InitLive /\ [][NextLive]_vars /\ WF_vars(MainThread)

SpecServe == InitLive /\ [][NextServe]_vars


\* =============================================================== SpecStart
\* Instance i's PID (of the process that runs its loop) and the socket file
\* its thread binds are both written i.

\* The processes that run, or are about to run, an instance's loop: what
\* os.kill(pid, 0) finds for the PID an instance writes.
LivePids ==
    {i \in Instances :
        inst_pc[i] \in {"write_pid", "start_server", "run_loop", "looping",
                        "cleanup", "returned"}}

\* start_foreground
s_start_foreground(i) ==
    /\ inst_pc[i] = "new"
    /\ inst_mode' = [inst_mode EXCEPT ![i] = "foreground"]
    /\ inst_pc' = [inst_pc EXCEPT ![i] = "run_loop"]
    /\ UNCHANGED <<sigv, cyclev, cliv, statusv, corev, files, launcher_pc, child_pc, inst_thread>>

\* start_daemon, _is_running up to its verdict: no file (False), a live PID
\* (True: "already running", return False), or the except branch.
s_is_running(i) ==
    /\ inst_pc[i] = "new"
    /\ inst_mode' = [inst_mode EXCEPT ![i] = "daemon"]
    /\ inst_pc' = [inst_pc EXCEPT ![i] =
            IF pid_file = NoFile THEN "fork1"
            ELSE IF is_running(pid_file, LivePids) THEN "exit"
            ELSE "unlink_stale"]
    /\ UNCHANGED <<sigv, cyclev, cliv, statusv, corev, files, launcher_pc, child_pc, inst_thread>>

\* _is_running, except branch: if self.pid_file.exists(): unlink; return False
s_is_running_unlink(i) ==
    /\ inst_pc[i] = "unlink_stale"
    /\ pid_file' = NoFile
    /\ inst_pc' = [inst_pc EXCEPT ![i] = "fork1"]
    /\ UNCHANGED <<sigv, cyclev, cliv, statusv, corev, sock_file, status_file, inst_mode, launcher_pc,
                   child_pc, inst_thread>>

\* First fork: the parent logs and calls sys.exit(0), the child goes on; a
\* failed fork returns False.
s_fork1(i, ok) ==
    /\ inst_pc[i] = "fork1"
    /\ IF ok
       THEN /\ launcher_pc' = [launcher_pc EXCEPT ![i] = "exiting"]
            /\ inst_pc' = [inst_pc EXCEPT ![i] = "fork2"]
       ELSE /\ inst_pc' = [inst_pc EXCEPT ![i] = "exit"]
            /\ UNCHANGED launcher_pc
    /\ UNCHANGED <<sigv, cyclev, cliv, statusv, corev, files, inst_mode, child_pc, inst_thread>>

\* A start_daemon that writes the PID file before the second fork.
s_fork2_after_pid_write(i, ok) ==
    /\ inst_pc[i] = "fork2"
    /\ pid_file' = i
    /\ IF ok
       THEN /\ child_pc' = [child_pc EXCEPT ![i] = "exiting"]
            /\ inst_pc' = [inst_pc EXCEPT ![i] = "write_pid"]
       ELSE /\ inst_pc' = [inst_pc EXCEPT ![i] = "exit"]
            /\ UNCHANGED child_pc
    /\ UNCHANGED <<sigv, cyclev, cliv, statusv, corev, sock_file, status_file, inst_mode,
                   launcher_pc, inst_thread>>

\* Second fork: the first child calls sys.exit(0); a failed fork is
\* sys.exit(1).
s_fork2(i, ok) ==
    /\ inst_pc[i] = "fork2"
    /\ IF ok
       THEN /\ child_pc' = [child_pc EXCEPT ![i] = "exiting"]
            /\ inst_pc' = [inst_pc EXCEPT ![i] = "write_pid"]
       ELSE /\ inst_pc' = [inst_pc EXCEPT ![i] = "exit"]
            /\ UNCHANGED child_pc
    /\ UNCHANGED <<sigv, cyclev, cliv, statusv, corev, files, inst_mode, launcher_pc, inst_thread>>

\* _write_pid_file
s_write_pid_file(i) ==
    /\ inst_pc[i] = "write_pid"
    /\ pid_file' = i
    /\ inst_pc' = [inst_pc EXCEPT ![i] = "start_server"]
    /\ UNCHANGED <<sigv, cyclev, cliv, statusv, corev, sock_file, status_file, inst_mode, launcher_pc,
                   child_pc, inst_thread>>

\* _start_command_server: unlink an existing socket path, start the thread.
s_start_command_server(i) ==
    /\ inst_pc[i] = "start_server"
    /\ sock_file' = NoFile
    /\ inst_thread' = [inst_thread EXCEPT ![i] = "created"]
    /\ inst_pc' = [inst_pc EXCEPT ![i] = "run_loop"]
    /\ UNCHANGED <<sigv, cyclev, cliv, statusv, corev, pid_file, status_file, inst_mode, launcher_pc,
                   child_pc>>

\* server_thread: bind creates the socket file, or fails on an existing path.
s_server_bind(i) ==
    /\ inst_thread[i] = "created"
    /\ inst_pc[i] # "exited"
    /\ IF sock_file = NoFile
       THEN /\ sock_file' = i
            /\ inst_thread' = [inst_thread EXCEPT ![i] = "bound"]
       ELSE /\ inst_thread' = [inst_thread EXCEPT ![i] = "failed"]
            /\ UNCHANGED sock_file
    /\ UNCHANGED <<sigv, cyclev, cliv, statusv, corev, pid_file, status_file, inst_pc, inst_mode,
                   launcher_pc, child_pc>>

\* _run_loop: running = True, the first snapshot, then the loop.
s_run_loop_enter(i) ==
    /\ inst_pc[i] = "run_loop"
    /\ status_file' = get_status(TRUE, FALSE, 0)
    /\ inst_pc' = [inst_pc EXCEPT ![i] = "looping"]
    /\ UNCHANGED <<sigv, cyclev, cliv, statusv, corev, pid_file, sock_file, inst_mode, launcher_pc,
                   child_pc, inst_thread>>

\* The loop ends (stop, or an error): finally writes the last snapshot.
s_run_loop_finally(i) ==
    /\ inst_pc[i] = "looping"
    /\ status_file' = get_status(FALSE, FALSE, 0)
    /\ inst_pc' = [inst_pc EXCEPT ![i] = "cleanup"]
    /\ UNCHANGED <<sigv, cyclev, cliv, statusv, corev, pid_file, sock_file, inst_mode, launcher_pc,
                   child_pc, inst_thread>>

\* _cleanup called by _run_loop: the socket path and the PID file are
\* unlinked if they exist.
s_cleanup(i) ==
    /\ inst_pc[i] = "cleanup"
    /\ sock_file' = NoFile
    /\ pid_file' = NoFile
    /\ inst_pc' = [inst_pc EXCEPT ![i] = "returned"]
    /\ UNCHANGED <<sigv, cyclev, cliv, statusv, corev, status_file, inst_mode, launcher_pc, child_pc,
                   inst_thread>>

\* The process that ran start_* ends: the atexit hook runs _cleanup.
s_process_exit(i) ==
    /\ inst_pc[i] \in {"returned", "exit"}
    /\ sock_file' = NoFile
    /\ pid_file' = NoFile
    /\ inst_pc' = [inst_pc EXCEPT ![i] = "exited"]
    /\ UNCHANGED <<sigv, cyclev, cliv, statusv, corev, status_file, inst_mode, launcher_pc, child_pc,
                   inst_thread>>

\* sys.exit(0) of the launching process after the first fork: its atexit
\* hook, registered in __init__ before the fork, runs _cleanup.
s_launcher_exit(i) ==
    /\ launcher_pc[i] = "exiting"
    /\ sock_file' = NoFile
    /\ pid_file' = NoFile
    /\ launcher_pc' = [launcher_pc EXCEPT ![i] = "gone"]
    /\ UNCHANGED <<sigv, cyclev, cliv, statusv, corev, status_file, inst_pc, inst_mode, child_pc,
                   inst_thread>>

\* sys.exit(0) of the intermediate child after the second fork, likewise.
s_child_exit(i) ==
    /\ child_pc[i] = "exiting"
    /\ sock_file' = NoFile
    /\ pid_file' = NoFile
    /\ child_pc' = [child_pc EXCEPT ![i] = "gone"]
    /\ UNCHANGED <<sigv, cyclev, cliv, statusv, corev, status_file, inst_pc, inst_mode, launcher_pc,
                   inst_thread>>

\* Every step taken on behalf of instance i.
InstanceStep(i) ==
    \/ s_start_foreground(i)
    \/ s_is_running(i)
    \/ s_is_running_unlink(i)
    \/ \E ok \in BOOLEAN : s_fork1(i, ok)
    \/ \E ok \in BOOLEAN : s_fork2(i, ok)
    \/ s_write_pid_file(i)
    \/ s_start_command_server(i)
    \/ s_server_bind(i)
    \/ s_run_loop_enter(i)
    \/ s_run_loop_finally(i)
    \/ s_cleanup(i)
    \/ s_process_exit(i)
    \/ s_launcher_exit(i)
    \/ s_child_exit(i)

NextStart == \E i \in Instances : InstanceStep(i)

\* The files an earlier, crashed instance may have left.
InitStart ==
    /\ InitScheduler(1, FALSE)
    /\ \/ pid_file = NoFile /\ sock_file = NoFile
       \/ pid_file = StalePid /\ sock_file = StaleSock
    /\ status_file = <<>>
    /\ InitInstances
    /\ InitUpdates

SpecStart == InitStart /\ [][NextStart]_vars

\* ================================================================= SpecSig
\* A scheduler started in the foreground and the signals its process gets
\* from __init__ on, with a record of the stop signals delivered.

\* _signal_handler: SIGINT or SIGTERM calls stop().
signal_handler_stop(sig) ==
    /\ ProcessAlive
    /\ sig \in {"SIGINT", "SIGTERM"}
    /\ stop
    /\ stop_signalled' = TRUE
    /\ UNCHANGED <<startv, statusv, cliv, cyclev>>
    /\ UNCHANGED <<step_count, start_time, last_run_time, next_run_time,
                   daemon_mode, command_server, pid_file, sock_file, mainv,
                   threadv, now, ivl_cmd_time>>

NextSig ==
    \/ start_foreground
    \/ MainThread
    \/ process_exit
    \/ \E sig \in {"SIGINT", "SIGTERM"} : signal_handler_stop(sig)
    \/ \E sig \in {"SIGUSR1", "SIGUSR2"} : signal_handler(sig)

SpecSig == Init /\ [][NextSig]_vars

\* =============================================================== SpecCycle
\* The run loop of src/ithaca/scheduler/simple_scheduler_.py, the scheduler
\* that runs the marketing agent every interval_hours. running, daemon_mode
\* and last_run_time are that scheduler's fields of the same name; its
\* clock is carried by cyc_remaining, and `now` stands for datetime.now().

\* _sleep_with_check(30 * 60) of the except branch
Cooldown == 30 * 60

\* sleep_time = min(60, seconds)
CheckEvery == IF cyc_remaining < 60 THEN cyc_remaining ELSE 60

\* What _execute_marketing_task meets: the agent returns a parsed output,
\* returns none, or raises an Exception.
TaskOutcomes == {"output", "no_output", "raise"}

cyc_frame ==
    UNCHANGED <<startv, statusv, cliv, sigv, files, command_server, mainv,
                threadv, now, ivl_cmd_time, paused, step_count,
                interval_seconds, start_time, next_run_time>>

InitCycle ==
    /\ InitScheduler(1, FALSE)
    /\ pid_file = NoFile /\ sock_file = NoFile /\ status_file = <<>>
    /\ InitInstances
    /\ upd_pc = [w \in Writers |-> "idle"]
    /\ upd_snap = [w \in Writers |-> <<>>]
    /\ truncated = FALSE /\ observed = "none"
    /\ exit_code = <<>> /\ cli_out = <<>>
    /\ stop_signalled = FALSE
    /\ cycle_count = 0 /\ cyc_pc = "new" /\ cyc_remaining = 0
    /\ interval_hours \in 1..MaxHours
    /\ failures_in_row = 0

\* start_foreground / start_background up to the call of _run_loop
cyc_start(background) ==
    /\ cyc_pc = "new"
    /\ daemon_mode' = background
    /\ running' = TRUE
    /\ cyc_pc' = "while"
    /\ UNCHANGED <<cycle_count, cyc_remaining, interval_hours,
                   failures_in_row, last_run_time>>
    /\ cyc_frame

\* while self.running:
cyc_while_running ==
    /\ cyc_pc = "while"
    /\ cyc_pc' = IF running THEN "task" ELSE "finally"
    /\ UNCHANGED <<running, daemon_mode, cycle_count, cyc_remaining,
                   interval_hours, failures_in_row, last_run_time>>
    /\ cyc_frame

\* The body of the inner try: _execute_marketing_task(); cycle_count += 1;
\* last_run_time = now; then _wait_for_next_cycle sets seconds to
\* interval_hours * 3600; on an Exception, _sleep_with_check(30 * 60).
cyc_execute_marketing_task(outcome) ==
    /\ cyc_pc = "task"
    /\ IF outcome = "raise"
       THEN /\ cyc_remaining' = Cooldown
            /\ cyc_pc' = "cooldown_test"
            /\ UNCHANGED <<cycle_count, last_run_time>>
       ELSE /\ cycle_count < MaxCycles
            /\ cycle_count' = cycle_count + 1
            /\ last_run_time' = now
            /\ cyc_remaining' = interval_hours * 3600
            /\ cyc_pc' = "wait_test"
    /\ failures_in_row' =
          IF outcome = "output" THEN 0
          ELSE IF failures_in_row < MaxFailures THEN failures_in_row + 1
          ELSE failures_in_row
    /\ UNCHANGED <<running, daemon_mode, interval_hours>>
    /\ cyc_frame

\* _sleep_with_check: while seconds > 0 and self.running:
cyc_sleep_test ==
    /\ cyc_pc \in {"wait_test", "cooldown_test"}
    /\ cyc_pc' = IF cyc_remaining > 0 /\ running
                 THEN (IF cyc_pc = "wait_test" THEN "wait_sleep"
                       ELSE "cooldown_sleep")
                 ELSE "while"
    /\ UNCHANGED <<running, daemon_mode, cycle_count, cyc_remaining,
                   interval_hours, failures_in_row, last_run_time>>
    /\ cyc_frame

\* time.sleep(sleep_time); seconds -= sleep_time
cyc_sleep ==
    /\ cyc_pc \in {"wait_sleep", "cooldown_sleep"}
    /\ cyc_remaining' = cyc_remaining - CheckEvery
    /\ cyc_pc' = IF cyc_pc = "wait_sleep" THEN "wait_test" ELSE "cooldown_test"
    /\ UNCHANGED <<running, daemon_mode, cycle_count, interval_hours,
                   failures_in_row, last_run_time>>
    /\ cyc_frame

\* finally: self.running = False
cyc_finally ==
    /\ cyc_pc = "finally"
    /\ running' = FALSE
    /\ cyc_pc' = "done"
    /\ UNCHANGED <<daemon_mode, cycle_count, cyc_remaining, interval_hours,
                   failures_in_row, last_run_time>>
    /\ cyc_frame

\* stop(), called by _signal_handler and by the `stop` command
cyc_stop ==
    /\ cyc_pc # "done"
    /\ running' = IF running THEN FALSE ELSE running
    /\ UNCHANGED <<daemon_mode, cyclev, last_run_time>>
    /\ cyc_frame

\* _handle_command("interval <hours>") of the background mode's listener,
\* which runs while self.running
cyc_interval(hours) ==
    /\ cyc_pc \notin {"new", "done"}
    /\ daemon_mode /\ running
    /\ interval_hours' = hours
    /\ UNCHANGED <<running, daemon_mode, cycle_count, cyc_pc, cyc_remaining,
                   failures_in_row, last_run_time>>
    /\ cyc_frame

NextCycle ==
    \/ \E background \in BOOLEAN : cyc_start(background)
    \/ cyc_while_running
    \/ \E outcome \in TaskOutcomes : cyc_execute_marketing_task(outcome)
    \/ cyc_sleep_test
    \/ cyc_sleep
    \/ cyc_finally
    \/ cyc_stop
    \/ \E hours \in 0..MaxHours : cyc_interval(hours)

SpecCycle == InitCycle /\ [][NextCycle]_vars

\* ================================================================= SpecCmd
\* _handle_command as a function of the scheduler's state and the command:
\* a scheduler in its loop, in any state of running, paused, interval and
\* step_count the loop can be in, is handed one command after another.

\* Commands, and strings that are none of the commands.
CmdInputs ==
    Commands \cup
    { <<>>, <<"banana">>, <<"STOP">>, <<"interval">>,
      <<"interval", "+1">>, <<"interval", "-1">>,
      <<"interval", "1", "abc">>, <<"interval", "abc", "1">> }

InitCmd ==
    /\ running \in BOOLEAN /\ paused \in BOOLEAN
    /\ step_count \in 0..MaxSteps
    /\ interval_seconds \in 1..MaxInterval
    /\ start_time = 0 /\ next_run_time = NoTime
    /\ last_run_time = IF step_count = 0 THEN NoTime ELSE 0
    /\ daemon_mode = TRUE
    /\ command_server = "open"
    /\ pc = "wait_sleep" /\ in_atexit = FALSE
    /\ remaining = interval_seconds /\ success = Null /\ call = Null
    /\ has_init = FALSE
    /\ inflight = 0
    /\ tpc = "accept" /\ response = <<>>
    /\ now = 0
    /\ ivl_cmd_time = NoTime
    /\ pid_file = SelfPid /\ sock_file = SelfSock
    /\ status_file = get_status(running, paused, step_count)
    /\ InitInstances
    /\ InitUpdates

\* response = self._handle_command(data)
call_handle_command(cmd) ==
    /\ handle_command(cmd)
    /\ UNCHANGED <<step_count, start_time, last_run_time, next_run_time,
                   daemon_mode, command_server, pid_file, sock_file, mainv,
                   tpc, now, ivl_cmd_time, startv, statusv, cliv, sigv,
                   cyclev>>

NextCmd == \E cmd \in CmdInputs : call_handle_command(cmd)

SpecCmd == InitCmd /\ [][NextCmd]_vars

\* ============================================================== SpecStatus
\* _update_status as the interpreter runs it, for a scheduler in its loop with
\* the run loop and server_thread as callers and the CLI's `status` as reader
\* (the loop is one position here, Spec has its steps):
\*     with open(self.status_file, 'w') as f:     (u_open: the file is emptied)
\*         json.dump(self.get_status(), f)        (u_dump: the fields are read)
\*                                                (u_close: the text is flushed)

InitStatus ==
    /\ running = TRUE /\ paused = FALSE /\ step_count = 0
    /\ interval_seconds \in 1..MaxInterval
    /\ start_time = 0 /\ last_run_time = NoTime /\ next_run_time = NoTime
    /\ daemon_mode = TRUE
    /\ command_server = "open"
    /\ pc = "while" /\ in_atexit = FALSE
    /\ remaining = 0 /\ success = Null /\ call = Null
    /\ has_init = FALSE
    /\ inflight = 0
    /\ tpc = "accept" /\ response = <<>>
    /\ now = 0
    /\ ivl_cmd_time = NoTime
    /\ pid_file = SelfPid /\ sock_file = SelfSock
    /\ status_file = get_status(TRUE, FALSE, 0)
    /\ InitInstances
    /\ InitUpdates

\* What SpecStatus leaves alone.
status_frame ==
    <<interval_seconds, start_time, next_run_time, daemon_mode,
      command_server, pid_file, sock_file, mainv, threadv, now, ivl_cmd_time,
      startv, cliv, sigv, cyclev>>

\* _execute_step counts a successful step; the loop goes on to
\* self._update_status().
u_step_counted ==
    /\ upd_pc["loop"] = "idle"
    /\ running
    /\ step_count < MaxSteps
    /\ step_count' = step_count + 1
    /\ last_run_time' = now
    /\ upd_pc' = [upd_pc EXCEPT !["loop"] = "call"]
    /\ UNCHANGED <<running, paused, status_file, upd_snap, truncated, observed,
                   status_frame>>

\* stop(), pause() or resume() in server_thread, up to its call of
\* self._update_status(); without effect when its guard is false.
u_command(cmd) ==
    /\ upd_pc["server"] = "idle"
    /\ CASE cmd = <<"stop">> ->
              /\ running
              /\ running' = FALSE /\ UNCHANGED paused
         [] cmd = <<"pause">> ->
              /\ running /\ ~paused
              /\ paused' = TRUE /\ UNCHANGED running
         [] cmd = <<"resume">> ->
              /\ running /\ paused
              /\ paused' = FALSE /\ UNCHANGED running
    /\ upd_pc' = [upd_pc EXCEPT !["server"] = "call"]
    /\ UNCHANGED <<step_count, status_file, upd_snap, truncated, observed,
                   last_run_time, status_frame>>

\* open(self.status_file, 'w')
u_open(w) ==
    /\ upd_pc[w] = "call"
    /\ truncated' = TRUE
    /\ upd_pc' = [upd_pc EXCEPT ![w] = "open"]
    /\ UNCHANGED <<running, paused, step_count, status_file, upd_snap,
                   observed, last_run_time, status_frame>>

\* json.dump(self.get_status(), f): the fields are read, the text is in f's
\* buffer.
u_dump(w) ==
    /\ upd_pc[w] = "open"
    /\ upd_snap' = [upd_snap EXCEPT ![w] = get_status(running, paused, step_count)]
    /\ upd_pc' = [upd_pc EXCEPT ![w] = "dump"]
    /\ UNCHANGED <<running, paused, step_count, status_file, truncated,
                   observed, last_run_time, status_frame>>

\* The with block ends: f is flushed and closed.
u_close(w) ==
    /\ upd_pc[w] = "dump"
    /\ status_file' = upd_snap[w]
    /\ truncated' = FALSE
    /\ upd_snap' = [upd_snap EXCEPT ![w] = <<>>]
    /\ upd_pc' = [upd_pc EXCEPT ![w] = "idle"]
    /\ UNCHANGED <<running, paused, step_count, observed, last_run_time, status_frame>>

\* get_scheduler_status of the CLI: json.load of the file, an error when the
\* text is not a JSON document.
read_status ==
    /\ observed' = IF truncated THEN "Failed to read status" ELSE "snapshot"
    /\ UNCHANGED <<running, paused, step_count, status_file, upd_pc, upd_snap,
                   truncated, last_run_time, status_frame>>

NextStatus ==
    \/ u_step_counted
    \/ \E cmd \in StateCommands \ {<<"status">>} : u_command(cmd)
    \/ \E w \in Writers : u_open(w)
    \/ \E w \in Writers : u_dump(w)
    \/ \E w \in Writers : u_close(w)
    \/ read_status

SpecStatus == InitStatus /\ [][NextStatus]_vars

\* ================================================================= SpecCli
\* One run of scheduler_cli.py (src/bk/scheduler_cli.py) against an instance
\* that is a live daemon, a scheduler started in the foreground, stopped, or
\* gone without cleanup.

\* The subcommands of the argument parser; `interval` takes type=int.
Subcommands ==
    { <<"status">>, <<"stop">>, <<"pause">>, <<"resume">>, <<"kill">>,
      <<"interval", "0">>, <<"interval", "1">> }

\* The scheduler and the files the CLI finds.
InitTarget(env, p, sc) ==
    /\ paused = p /\ step_count = sc
    /\ CASE env = "daemon" ->
              /\ running = TRUE /\ daemon_mode = TRUE
              /\ command_server = "open" /\ tpc = "accept"
              /\ pid_file = SelfPid /\ sock_file = SelfSock
              /\ status_file = get_status(TRUE, p, sc)
         [] env = "foreground" ->
              /\ running = TRUE /\ daemon_mode = FALSE
              /\ command_server = Null /\ tpc = "none"
              /\ pid_file = NoFile /\ sock_file = NoFile
              /\ status_file = get_status(TRUE, p, sc)
         [] env = "stopped" ->
              /\ running = FALSE /\ daemon_mode = TRUE
              /\ command_server = "closed" /\ tpc = "thread_done"
              /\ pid_file = NoFile /\ sock_file = NoFile
              /\ status_file = get_status(FALSE, p, sc)
         [] env = "never_started" ->
              /\ running = FALSE /\ daemon_mode = FALSE
              /\ command_server = Null /\ tpc = "none"
              /\ pid_file = NoFile /\ sock_file = NoFile
              /\ status_file = <<>>
         [] env = "killed" ->
              /\ running = FALSE /\ daemon_mode = TRUE
              /\ command_server = Null /\ tpc = "none"
              /\ pid_file = StalePid /\ sock_file = StaleSock
              /\ status_file = get_status(TRUE, p, sc)

Targets == {"daemon", "foreground", "stopped", "never_started", "killed"}

InitCli ==
    /\ \E env \in Targets, p \in BOOLEAN, sc \in 0..MaxSteps :
          /\ env = "never_started" => (~p /\ sc = 0)
          /\ InitTarget(env, p, sc)
          /\ pc = IF env \in {"daemon", "foreground"} THEN "wait_sleep"
                  ELSE IF env = "never_started" THEN "new" ELSE "exited"
          /\ start_time = IF env = "never_started" THEN NoTime ELSE 0
    /\ interval_seconds \in 1..MaxInterval
    /\ last_run_time = IF step_count = 0 THEN NoTime ELSE 0
    /\ next_run_time = NoTime
    /\ in_atexit = FALSE
    /\ remaining = 0 /\ success = Null /\ call = Null
    /\ has_init = FALSE
    /\ inflight = 0
    /\ response = <<>>
    /\ now = 0
    /\ ivl_cmd_time = NoTime
    /\ InitInstances
    /\ InitUpdates

\* send_command: the socket path does not exist, connect fails because nobody
\* listens, or the scheduler's _handle_command answers.
send_command(cmd) ==
    IF sock_file = NoFile
    THEN /\ cli_out' = <<"Scheduler", "is not running">>
         /\ UNCHANGED <<running, paused, interval_seconds, status_file,
                        response>>
    ELSE IF sock_file # SelfSock \/ tpc # "accept"
    THEN /\ cli_out' = <<"Error communicating with scheduler">>
         /\ UNCHANGED <<running, paused, interval_seconds, status_file,
                        response>>
    ELSE /\ handle_command(cmd)
         /\ cli_out' = response'

\* main() of scheduler_cli.py, to its return value.
cli_main(sub) ==
    /\ exit_code = <<>>
    /\ CASE sub = <<"status">> ->
              /\ IF status_file = <<>>
                 THEN /\ cli_out' = <<"status not found">>
                      /\ exit_code' = <<1>>
                 ELSE /\ cli_out' = <<"Status:">>
                      /\ exit_code' = <<0>>
              /\ UNCHANGED <<running, paused, interval_seconds, status_file,
                             response>>
         [] sub = <<"kill">> ->
              IF pid_file = NoFile
              THEN /\ cli_out' = <<"PID file not found">>
                   /\ exit_code' = <<1>>
                   /\ UNCHANGED <<running, paused, interval_seconds,
                                  status_file, response>>
              ELSE IF pid_file # SelfPid
              THEN /\ cli_out' = <<"Failed to kill scheduler">>
                   /\ exit_code' = <<1>>
                   /\ UNCHANGED <<running, paused, interval_seconds,
                                  status_file, response>>
              ELSE /\ stop
                   /\ cli_out' = <<"Sent SIGTERM to scheduler PID">>
                   /\ exit_code' = <<0>>
                   /\ UNCHANGED response
         [] OTHER ->
              /\ send_command(sub)
              /\ exit_code' = <<0>>
    /\ UNCHANGED <<step_count, start_time, last_run_time, next_run_time,
                   daemon_mode, command_server, pid_file, sock_file, mainv,
                   tpc, now, ivl_cmd_time, startv, statusv, sigv, cyclev>>

NextCli == \E sub \in Subcommands : cli_main(sub)

SpecCli == InitCli /\ [][NextCli]_vars

\* ======================================================== claims, Spec

\* C1 (pause gating): from a state with running and paused both true, no
\* Step Executor invocation begins and step_count does not change.
C1_PauseGating ==
    [][(running /\ paused) =>
         (inflight' <= inflight /\ step_count' = step_count)]_vars

\* C2 (interval takes effect within one tick): while the loop sleeps in
\* _wait_for_next_step after an `interval n` command, n >= 1, accepted at time
\* t during that wait, the tick it is sleeping ends no later than t + n + 1,
\* so the next step starts no later than that.
C2_IntervalGovernsWait ==
    (pc = "wait_sleep" /\ ivl_cmd_time # NoTime /\ interval_seconds >= 1
     /\ running /\ ~paused)
        => now + 1 <= ivl_cmd_time + interval_seconds + 1

\* C3 (cleanup on every exit path): once the process whose run loop has
\* terminated is gone, the socket file and the PID file are absent.
C3_FilesAbsentAfterExit ==
    (pc = "exited" /\ start_time # NoTime)
        => (sock_file = NoFile /\ pid_file = NoFile)

\* C5 (lifecycle invariant): paused implies running.
C5_PausedImpliesRunning == paused => running

\* C6 (interval at least one second): interval_seconds >= 1 in every state.
C6_IntervalPositive == interval_seconds >= 1

\* C7 (step_count counts successes): step_count changes only by +1, only in
\* the return of a Step Executor invocation, and only when it returned success.
C7_StepCountOnSuccess ==
    [][step_count' # step_count =>
         (step_count' = step_count + 1 /\ pc = "in_step" /\ inflight' < inflight
          /\ success' = "True")]_vars

C7_Witness == pc = "set_next" /\ success = "True" /\ step_count = 1

\* C8 (idempotent stop): after every stop(), by signal or by command,
\* running is false; a stop() that finds running false changes no
\* SchedulerState field. Every step either ends so or is no stop().
StopCalled ==
    \/ \E sig \in {"SIGINT", "SIGTERM"} : signal_handler(sig)
    \/ server_accept_handle(<<"stop">>)

C8_StopIdempotent ==
    [][(~running' /\ (~running => UNCHANGED sched)) \/ ~StopCalled]_vars

C8_Witness ==
    ~running /\ pc = "wait_sleep" /\ response = <<"Scheduler stopped">>

\* C9 (at most one step in flight): the number of Step Executor invocations
\* started and not returned is 0 or 1, and only the run loop, at its call in
\* _execute_step, starts one.
C9_AtMostOneStep ==
    /\ [](inflight \in {0, 1})
    /\ [][inflight' > inflight =>
            (pc = "execute_step" /\ pc' = "in_step")]_vars

C9_Witness == inflight = 1 /\ tpc = "send" /\ response = <<"Scheduler resumed">>

\* C10 (stop prevents the next step): once stop() has returned on a started
\* scheduler (running is false again), no Step Executor invocation begins.
C10_NoStepAfterStop ==
    [][(start_time # NoTime /\ ~running) => inflight' <= inflight]_vars

\* C11 (stop ends the loop): under SpecLive, once running is false on a
\* started scheduler whose clock has a tick left, _run_loop returns with
\* running false, a snapshot with running false in the status file and
\* _cleanup done; and
\* on the way the loop takes at most one more 1-second sleep: a sleep is
\* followed by the loop tests and the finally block, with no sleep after it.
LoopPcs ==
    {"while", "if_paused", "paused_sleep", "execute_step", "in_step",
     "set_next", "wait_enter", "wait_test", "wait_sleep", "finally"}

Sleeps == {"wait_sleep", "paused_sleep"}

NoSleepAhead == {"set_next", "wait_enter", "wait_test", "while", "finally"}

C14_FilesWhileRunning ==
    running => (pid_file = SelfPid /\ sock_file = SelfSock)
\* C18 (bind failure aborts startup): once the Command Server has failed to
\* create or bind its socket, the run loop is not running and no Step
\* Executor invocation is in flight.
C18_BindFailureAborts ==
    tpc = "failed" => (~running /\ inflight = 0)

\* C22 (one command, one response): a connection whose command has been
\* handled gets its response: the process does not end while server_thread
\* holds a response it has not sent, `Scheduler stopped` included.
C22_ResponseDelivered == tpc = "send" => ProcessAlive

\* Every Step Executor invocation so far has failed and at least one has
\* returned to the loop.
FailedLast == step_count = 0 /\ next_run_time # NoTime

C27_ServesWhileRunning ==
    (running /\ daemon_mode /\ command_server = "open") => tpc # "thread_done"

C30_NoStepBeforeNextRun ==
    (pc = "in_step" /\ next_run_time # NoTime) => now >= next_run_time

\* C30 (no step before next_run_time unless a pause cut the wait): the
\* inter-step wait ends with seconds remaining only when the scheduler is
\* stopped or paused, and a Step Executor invocation that follows a wait
\* which ran to its end begins no earlier than the next_run_time published
\* after the previous step.
C30_FullWaitUnlessPaused ==
    /\ []((pc = "in_step" /\ next_run_time # NoTime /\ remaining = 0)
            => now >= next_run_time)
    /\ [][(pc = "wait_test" /\ pc' = "while" /\ remaining > 0)
            => (~running \/ paused)]_vars

C30_Witness ==
    /\ pc = "in_step" /\ next_run_time # NoTime /\ remaining = 0
    /\ interval_seconds >= 2 /\ now = next_run_time /\ step_count = 1

\* ==================================================== claims, SpecServe

\* C21 (the server thread follows running): once running is false the server
\* thread, wherever it is in its loop and whatever the client does, can take
\* its next step by itself, an instruction or the timeout of the call it is
\* in, so that it reaches the loop test and leaves within one timeout.
C21_ThreadFollowsRunning ==
    (start_time # NoTime /\ ~running /\ ProcessAlive
     /\ tpc \in {"serve_test", "accept", "recv", "send"})
        => ENABLED ThreadOwnStep

\* C24 (init_run on the first invocation only): a Step Executor invocation
\* that calls init_run is the first one of the loop; next_run_time is set
\* after every invocation that returns to the loop, so it is still unset.
C24_InitRunOnce ==
    (pc = "in_step" /\ call = "init_run") => next_run_time = NoTime

\* ====================================================== claims, SpecSig

\* C23 (a stop signal stops the scheduler): once SIGINT or SIGTERM has been
\* delivered, at any time after __init__, running is false after every step
\* and no Step Executor invocation begins.
C23_StopSignalStops ==
    [][stop_signalled => (~running' /\ inflight' <= inflight)]_vars

\* ==================================================== claims, SpecCycle

\* C26 (cooldown after three failures in a row): simple_scheduler_.py is in
\* its 30-minute cooldown only when the last three tasks, at least, have
\* failed.
C26_CooldownAfterThree ==
    cyc_pc \in {"cooldown_test", "cooldown_sleep"} => failures_in_row >= 3

\* ===================================================== claims, SpecCmd

\* C13 (parse errors leave the scheduler untouched): for every command that
\* is not exactly status, stop, pause, resume or `interval <integer>`,
\* _handle_command changes no SchedulerState field and returns "Invalid
\* interval format. Use: interval <seconds>" when the command starts with
\* `interval ` and "Unknown command: <input>" otherwise.
WellFormed(cmd) ==
    \/ cmd \in StateCommands
    \/ Len(cmd) = 2 /\ cmd[1] = "interval" /\ ParsesAsInt(cmd[2])

C13_ParseErrorsLeaveState ==
    [][\A cmd \in CmdInputs :
         (~WellFormed(cmd) /\ call_handle_command(cmd)) =>
             /\ UNCHANGED sched
             /\ response' =
                  IF StartsWithInterval(cmd)
                  THEN <<"Invalid interval format. Use: interval <seconds>">>
                  ELSE <<"Unknown command">> \o cmd]_vars

\* ================================================== claims, SpecStatus

\* C15 (no torn read of the status file): a read of the status file never
\* finds a text that is not a complete snapshot.
C15_NoTornRead == observed # "Failed to read status"

\* C16 (the file follows the state): whenever no _update_status call is
\* pending or in progress and the scheduler is running, the status file's
\* running, paused and step_count are the in-memory values.
C16_FileFollowsState ==
    (running /\ \A w \in Writers : upd_pc[w] = "idle")
        => status_file = get_status(running, paused, step_count)

\* ===================================================== claims, SpecCli

\* C17 (exit code of the CLI Controller): main() returns 0 only when the
\* command was delivered to a running scheduler: for stop, pause, resume and
\* interval the socket exists with the scheduler accepting on it, for kill
\* the PID file names the live scheduler, for status the file was read.
Delivered(sub) ==
    CASE sub = <<"status">> -> status_file # <<>>
      [] sub = <<"kill">> -> pid_file = SelfPid
      [] OTHER -> sock_file = SelfSock /\ tpc = "accept"

C17_ExitCode ==
    [][\A sub \in Subcommands :
         cli_main(sub) => (exit_code' = <<0>> => Delivered(sub))]_vars

\* =================================================== claims, SpecStart

\* C4 (one owner per name): while an instance is in its run loop and the PID
\* file names it, no step of the other instance of that name (its start, the
\* processes its forks leave, its thread, its exit) brings the other instance
\* into the run loop, changes the PID file, or unlinks or rebinds the socket
\* file the first has bound.
Other(i) == CHOOSE j \in Instances : j # i

C4_SingleOwner ==
    [][\A i \in Instances :
         (inst_pc[i] = "looping" /\ pid_file = i /\ InstanceStep(Other(i))) =>
             /\ inst_pc'[Other(i)] = "looping" => inst_pc[Other(i)] = "looping"
             /\ pid_file' = i
             /\ sock_file = i => sock_file' = i]_vars

\* C12 (stale PID detection): the unlink in _is_running removes only a PID
\* file that names no live process; a PID file naming a live process is never
\* deleted by the check.
C12_CheckSparesLiveOwner ==
    [][\A i \in Instances :
         s_is_running_unlink(i) => ~is_running(pid_file, LivePids)]_vars

\* C28 (_cleanup removes only the instance's own files): when an instance
\* that wrote no PID file and bound no socket (started in the foreground, or
\* its start_daemon rejected) runs _cleanup, from its run loop's finally or
\* from its atexit hook, the PID file and the socket file of a live daemon
\* of the same name stay as they are.
C28_CleanupOwnOnly ==
    [][\A i \in Instances :
         (/\ inst_mode[i] = "foreground" \/ inst_pc[i] = "exit"
          /\ s_cleanup(i) \/ s_process_exit(i)
          /\ inst_mode[Other(i)] = "daemon" /\ inst_pc[Other(i)] = "looping"
          /\ pid_file = Other(i)) =>
             (pid_file' = pid_file /\ sock_file' = sock_file)]_vars

\* C19 (aborted start creates nothing): a start_daemon that aborts (the name
\* is held by a live process, or a fork fails) does not enter the run loop,
\* and up to that point it has started no server thread and created no PID
\* file, no socket file and no status file: its steps before the abort leave
\* the status file alone and at most remove the other two.
BeforeFiles == {"new", "unlink_stale", "fork1", "fork2"}

C19_AbortCreatesNothing ==
    /\ [](\A i \in Instances :
            inst_pc[i] = "exit" =>
                (pid_file # i /\ sock_file # i /\ inst_thread[i] = "none"))
    /\ [][\A i \in Instances :
            /\ inst_pc[i] = "exit" => inst_pc'[i] \in {"exit", "exited"}
            /\ (inst_pc[i] \in BeforeFiles /\ InstanceStep(i)) =>
                  /\ status_file' = status_file
                  /\ pid_file' \in {pid_file, NoFile}
                  /\ sock_file' \in {sock_file, NoFile}]_vars

C19_Witness ==
    /\ inst_pc["b"] = "exit" /\ launcher_pc["b"] = "exiting"
    /\ inst_pc["a"] = "looping" /\ pid_file = "a"

\* C20 (daemon hand-off ordering): the launching process exits with code 0
\* only after the daemon has completed start-up: the second fork has
\* succeeded, the PID file holds the daemon's PID and the Command Server is
\* bound.
C20_HandOffOrder ==
    [][\A i \in Instances :
         s_launcher_exit(i) =>
             /\ inst_pc[i] \in {"run_loop", "looping"}
             /\ pid_file = i
             /\ inst_thread[i] = "bound"]_vars

====
